---- MODULE Spec2Model ----
(***************************************************************************)
(* Model of the online chess backend: the in-memory game store             *)
(* (chess_engine.py), the request handlers (main.py) and the part of the   *)
(* chess.Board / chess.Move behaviour the handlers rely on.                *)
(***************************************************************************)
EXTENDS Integers, Sequences, FiniteSets, TLC

(***************************************************************************)
(* Bounds of the model                                                     *)
(***************************************************************************)
\* total number of moves applied over all live games
MaxPlies == 7
\* number of moves pushed on the game that concurrent requests share
MaxConcPlies == 2
\* number of moves applied to the game of a long line of play
MaxLongPlies == 101
\* number of moves recorded in the history of the game that get-state reads
MaxReadPlies == 1
\* number of moves applied to the game that is played to its end
MaxMatePlies == 19

(***************************************************************************)
(* chess: squares, pieces, moves                                           *)
(***************************************************************************)
\* chess.WHITE / chess.BLACK are the booleans True / False
WHITE == TRUE
BLACK == FALSE

NoPiece == "None"
NoSquare == 0 - 1

Squares == 0 .. 63
square_file(sq) == sq % 8
square_rank(sq) == sq \div 8
square(f, r) == r * 8 + f
OnBoard(f, r) == f \in 0 .. 7 /\ r \in 0 .. 7

FILE_NAMES == <<"a", "b", "c", "d", "e", "f", "g", "h">>
RANK_NAMES == <<"1", "2", "3", "4", "5", "6", "7", "8">>
\* chess.PIECE_SYMBOLS without its leading None
PIECE_SYMBOLS == <<"p", "n", "b", "r", "q", "k">>
PieceTypes == {PIECE_SYMBOLS[i] : i \in 1 .. 6}

WhiteSymbols == {"P", "N", "B", "R", "Q", "K"}
BlackSymbols == {"p", "n", "b", "r", "q", "k"}

\* chess.Piece.symbol(): upper case for white
piece_symbol(ptype, color) ==
    IF color = WHITE
    THEN CASE ptype = "p" -> "P" [] ptype = "n" -> "N" [] ptype = "b" -> "B"
           [] ptype = "r" -> "R" [] ptype = "q" -> "Q" [] ptype = "k" -> "K"
    ELSE ptype

piece_type(sym) ==
    CASE sym \in {"P", "p"} -> "p" [] sym \in {"N", "n"} -> "n"
      [] sym \in {"B", "b"} -> "b" [] sym \in {"R", "r"} -> "r"
      [] sym \in {"Q", "q"} -> "q" [] sym \in {"K", "k"} -> "k"
      [] OTHER -> NoPiece

piece_color(sym) == sym \in WhiteSymbols

OwnSymbols(color) == IF color = WHITE THEN WhiteSymbols ELSE BlackSymbols

E1 == square(4, 0)
E8 == square(4, 7)

\* chess.Move(from_square, to_square, promotion=None, drop=None)
Move(from, to, promo, drop) ==
    [from_square |-> from, to_square |-> to, promotion |-> promo, drop |-> drop]

NullMove == Move(0, 0, NoPiece, NoPiece)

\* Move.__bool__
move_bool(m) ==
    m.from_square # 0 \/ m.to_square # 0 \/ m.promotion # NoPiece \/ m.drop # NoPiece

(***************************************************************************)
(* chess.Move.from_uci / Move.uci.  A text is a sequence of characters.    *)
(***************************************************************************)
IndexIn(seq, x) == IF \E i \in 1 .. Len(seq) : seq[i] = x
                   THEN CHOOSE i \in 1 .. Len(seq) : seq[i] = x
                   ELSE 0

\* SQUARE_NAMES.index(two characters); NoSquare stands for the ValueError
square_index(c1, c2) ==
    LET f == IndexIn(FILE_NAMES, c1)
        r == IndexIn(RANK_NAMES, c2)
    IN  IF f = 0 \/ r = 0 THEN NoSquare ELSE square(f - 1, r - 1)

square_name(sq) ==
    <<FILE_NAMES[square_file(sq) + 1], RANK_NAMES[square_rank(sq) + 1]>>

lower(c) ==
    CASE c = "P" -> "p" [] c = "N" -> "n" [] c = "B" -> "b"
      [] c = "R" -> "r" [] c = "Q" -> "q" [] c = "K" -> "k"
      [] OTHER -> c

ParseFailure == [ok |-> FALSE, move |-> NullMove]
Parsed(m) == [ok |-> TRUE, move |-> m]

\* Move.from_uci(uci): ok = FALSE stands for the ValueError it raises
from_uci(uci) ==
    IF uci = <<"0", "0", "0", "0">> THEN Parsed(NullMove)
    ELSE IF Len(uci) = 4 /\ uci[2] = "@"
    THEN LET drop == lower(uci[1])
             sq == square_index(uci[3], uci[4])
         IN  IF drop \notin PieceTypes \/ sq = NoSquare THEN ParseFailure
             ELSE Parsed(Move(sq, sq, NoPiece, drop))
    ELSE IF Len(uci) \in 4 .. 5
    THEN LET from == square_index(uci[1], uci[2])
             to == square_index(uci[3], uci[4])
             promo == IF Len(uci) = 5 THEN uci[5] ELSE NoPiece
         IN  IF from = NoSquare \/ to = NoSquare THEN ParseFailure
             ELSE IF Len(uci) = 5 /\ promo \notin PieceTypes THEN ParseFailure
             ELSE IF from = to THEN ParseFailure
             ELSE Parsed(Move(from, to, promo, NoPiece))
    ELSE ParseFailure

\* Move.uci()
move_uci(m) ==
    IF m.drop # NoPiece
    THEN <<piece_symbol(m.drop, WHITE), "@">> \o square_name(m.to_square)
    ELSE IF m.promotion # NoPiece
    THEN square_name(m.from_square) \o square_name(m.to_square) \o <<m.promotion>>
    ELSE IF move_bool(m)
    THEN square_name(m.from_square) \o square_name(m.to_square)
    ELSE <<"0", "0", "0", "0">>

(***************************************************************************)
(* chess.Board: the position, attacks and move generation                  *)
(***************************************************************************)
BackRank == <<"r", "n", "b", "q", "k", "b", "n", "r">>

StartPieces ==
    [i \in 1 .. 64 |->
        LET f == square_file(i - 1)
            r == square_rank(i - 1)
        IN  CASE r = 0 -> piece_symbol(BackRank[f + 1], WHITE)
              [] r = 1 -> "P"
              [] r = 6 -> "p"
              [] r = 7 -> BackRank[f + 1]
              [] OTHER -> NoPiece]

\* chess.Board(): the standard starting position, empty move stack
NewBoard ==
    [pieces |-> StartPieces, turn |-> WHITE,
     castling_rights |-> {square(0, 0), square(7, 0), square(0, 7), square(7, 7)},
     ep_square |-> NoSquare, halfmove_clock |-> 0, fullmove_number |-> 1,
     move_stack |-> <<>>, stack |-> <<>>]

\* Board._board_state(): what push() saves on Board._stack
board_state(b) ==
    [pieces |-> b.pieces, turn |-> b.turn, castling_rights |-> b.castling_rights,
     ep_square |-> b.ep_square, halfmove_clock |-> b.halfmove_clock,
     fullmove_number |-> b.fullmove_number]

piece_at(b, sq) == b.pieces[sq + 1]

KnightDeltas == {<<1, 2>>, <<2, 1>>, <<2, -1>>, <<1, -2>>,
                 <<-1, -2>>, <<-2, -1>>, <<-2, 1>>, <<-1, 2>>}
KingDeltas == {<<1, 0>>, <<1, 1>>, <<0, 1>>, <<-1, 1>>,
               <<-1, 0>>, <<-1, -1>>, <<0, -1>>, <<1, -1>>}
RookDirs == {<<1, 0>>, <<-1, 0>>, <<0, 1>>, <<0, -1>>}
BishopDirs == {<<1, 1>>, <<1, -1>>, <<-1, 1>>, <<-1, -1>>}

\* the first piece met from (f, r) in direction (df, dr), NoPiece when none
RECURSIVE RayHit(_, _, _, _, _)
RayHit(pieces, f, r, df, dr) ==
    IF ~OnBoard(f + df, r + dr) THEN NoPiece
    ELSE IF pieces[square(f + df, r + dr) + 1] # NoPiece
    THEN pieces[square(f + df, r + dr) + 1]
    ELSE RayHit(pieces, f + df, r + dr, df, dr)

\* the squares a slider on (f, r) of colour `color` reaches in direction (df, dr)
RECURSIVE RaySquares(_, _, _, _, _, _)
RaySquares(pieces, color, f, r, df, dr) ==
    IF ~OnBoard(f + df, r + dr) THEN {}
    ELSE LET sq == square(f + df, r + dr)
         IN  IF pieces[sq + 1] = NoPiece
             THEN {sq} \cup RaySquares(pieces, color, f + df, r + dr, df, dr)
             ELSE IF piece_color(pieces[sq + 1]) = color THEN {} ELSE {sq}

\* Board.is_attacked_by(color, square)
is_attacked_by(pieces, color, sq) ==
    LET f == square_file(sq)
        r == square_rank(sq)
        pr == IF color = WHITE THEN r - 1 ELSE r + 1
    IN  \/ \E d \in KnightDeltas :
              /\ OnBoard(f + d[1], r + d[2])
              /\ pieces[square(f + d[1], r + d[2]) + 1] = piece_symbol("n", color)
        \/ \E d \in KingDeltas :
              /\ OnBoard(f + d[1], r + d[2])
              /\ pieces[square(f + d[1], r + d[2]) + 1] = piece_symbol("k", color)
        \/ \E df \in {-1, 1} :
              /\ OnBoard(f + df, pr)
              /\ pieces[square(f + df, pr) + 1] = piece_symbol("p", color)
        \/ \E d \in RookDirs :
              RayHit(pieces, f, r, d[1], d[2])
                  \in {piece_symbol("r", color), piece_symbol("q", color)}
        \/ \E d \in BishopDirs :
              RayHit(pieces, f, r, d[1], d[2])
                  \in {piece_symbol("b", color), piece_symbol("q", color)}

\* Board.king(color): the king's square, NoSquare when there is none
king(pieces, color) ==
    IF \E sq \in Squares : pieces[sq + 1] = piece_symbol("k", color)
    THEN CHOOSE sq \in Squares : pieces[sq + 1] = piece_symbol("k", color)
    ELSE NoSquare

\* Board.is_check()
is_check(b) ==
    /\ king(b.pieces, b.turn) # NoSquare
    /\ is_attacked_by(b.pieces, ~b.turn, king(b.pieces, b.turn))

\* Board.clean_castling_rights()
clean_castling_rights(b) ==
    {sq \in b.castling_rights :
        \/ sq \in {square(0, 0), square(7, 0)} /\ b.pieces[sq + 1] = "R"
              /\ b.pieces[E1 + 1] = "K"
        \/ sq \in {square(0, 7), square(7, 7)} /\ b.pieces[sq + 1] = "r"
              /\ b.pieces[E8 + 1] = "k"}

\* the destination squares of the piece on `from` (castling aside)
Targets(b, from) ==
    LET sym == b.pieces[from + 1]
        pt == piece_type(sym)
        f == square_file(from)
        r == square_rank(from)
        up == IF b.turn = WHITE THEN 1 ELSE 0 - 1
        startRank == IF b.turn = WHITE THEN 1 ELSE 6
        epRank == IF b.turn = WHITE THEN 4 ELSE 3
        steps(ds) == {square(f + d[1], r + d[2]) : d \in
                        {d \in ds : OnBoard(f + d[1], r + d[2])}}
        notOwn(S) == {sq \in S : b.pieces[sq + 1] \notin OwnSymbols(b.turn)}
        rays(ds) == UNION {RaySquares(b.pieces, b.turn, f, r, d[1], d[2]) : d \in ds}
    IN  CASE pt = "n" -> notOwn(steps(KnightDeltas))
          [] pt = "k" -> notOwn(steps(KingDeltas))
          [] pt = "r" -> rays(RookDirs)
          [] pt = "b" -> rays(BishopDirs)
          [] pt = "q" -> rays(RookDirs \cup BishopDirs)
          [] pt = "p" ->
                {sq \in steps({<<0, up>>}) : b.pieces[sq + 1] = NoPiece}
                \cup {sq \in steps({<<0, 2 * up>>}) :
                        /\ r = startRank
                        /\ b.pieces[sq + 1] = NoPiece
                        /\ b.pieces[square(f, r + up) + 1] = NoPiece}
                \cup {sq \in steps({<<1, up>>, <<-1, up>>}) :
                        \/ b.pieces[sq + 1] \in OwnSymbols(~b.turn)
                        \/ /\ sq = b.ep_square
                           /\ r = epRank
                           /\ b.pieces[sq + 1] = NoPiece}
          [] OTHER -> {}

\* the promotion choices of a move of the piece on `from` to `to`
Promotions(b, from, to) ==
    IF piece_type(b.pieces[from + 1]) = "p" /\ square_rank(to) \in {0, 7}
    THEN {"q", "r", "b", "n"}
    ELSE {NoPiece}

\* Board.generate_pseudo_legal_moves(), castling aside
generate_pseudo_legal_moves(b) ==
    UNION {UNION {{Move(from, to, p, NoPiece) : p \in Promotions(b, from, to)} :
                    to \in Targets(b, from)} :
             from \in {sq \in Squares : b.pieces[sq + 1] \in OwnSymbols(b.turn)}}

\* Board.generate_castling_moves(), in the standard (king moves two squares) form
generate_castling_moves(b) ==
    LET r == IF b.turn = WHITE THEN 0 ELSE 7
        k == square(4, r)
        free(files) == \A f \in files : b.pieces[square(f, r) + 1] = NoPiece
        safe(files) == \A f \in files :
                          ~is_attacked_by(b.pieces, ~b.turn, square(f, r))
    IN  IF b.pieces[k + 1] # piece_symbol("k", b.turn) THEN {}
        ELSE {Move(k, square(6, r), NoPiece, NoPiece) : x \in
                {x \in {1} : /\ square(7, r) \in clean_castling_rights(b)
                             /\ free({5, 6})
                             /\ safe({4, 5, 6})}}
             \cup
             {Move(k, square(2, r), NoPiece, NoPiece) : x \in
                {x \in {1} : /\ square(0, r) \in clean_castling_rights(b)
                             /\ free({1, 2, 3})
                             /\ safe({4, 3, 2})}}

\* Board._from_chess960(False, from, to): king-takes-rook castling, standard form
from_chess960(b, m) ==
    IF m.promotion = NoPiece /\ m.drop = NoPiece
    THEN IF m.from_square = E1 /\ piece_type(b.pieces[E1 + 1]) = "k"
         THEN IF m.to_square = square(7, 0) THEN Move(E1, square(6, 0), NoPiece, NoPiece)
              ELSE IF m.to_square = square(0, 0)
              THEN Move(E1, square(2, 0), NoPiece, NoPiece)
              ELSE m
         ELSE IF m.from_square = E8 /\ piece_type(b.pieces[E8 + 1]) = "k"
         THEN IF m.to_square = square(7, 7) THEN Move(E8, square(6, 7), NoPiece, NoPiece)
              ELSE IF m.to_square = square(0, 7)
              THEN Move(E8, square(2, 7), NoPiece, NoPiece)
              ELSE m
         ELSE m
    ELSE m

\* Board._to_chess960(move): standard castling, king-takes-rook form
to_chess960(b, m) ==
    IF m.from_square = E1 /\ piece_type(b.pieces[E1 + 1]) = "k"
    THEN IF m.to_square = square(6, 0) /\ piece_type(b.pieces[square(6, 0) + 1]) # "r"
         THEN Move(E1, square(7, 0), NoPiece, NoPiece)
         ELSE IF m.to_square = square(2, 0)
                 /\ piece_type(b.pieces[square(2, 0) + 1]) # "r"
         THEN Move(E1, square(0, 0), NoPiece, NoPiece)
         ELSE m
    ELSE IF m.from_square = E8 /\ piece_type(b.pieces[E8 + 1]) = "k"
    THEN IF m.to_square = square(6, 7) /\ piece_type(b.pieces[square(6, 7) + 1]) # "r"
         THEN Move(E8, square(7, 7), NoPiece, NoPiece)
         ELSE IF m.to_square = square(2, 7)
                 /\ piece_type(b.pieces[square(2, 7) + 1]) # "r"
         THEN Move(E8, square(0, 7), NoPiece, NoPiece)
         ELSE m
    ELSE m

Abs(x) == IF x < 0 THEN 0 - x ELSE x

\* Board.is_castling(move)
is_castling(b, m) ==
    /\ piece_type(b.pieces[m.from_square + 1]) = "k"
    /\ \/ Abs(square_file(m.from_square) - square_file(m.to_square)) > 1
       \/ b.pieces[m.to_square + 1] = piece_symbol("r", b.turn)

\* Board.is_en_passant(move)
is_en_passant(b, m) ==
    /\ b.ep_square = m.to_square
    /\ piece_type(b.pieces[m.from_square + 1]) = "p"
    /\ Abs(m.to_square - m.from_square) \in {7, 9}
    /\ b.pieces[m.to_square + 1] = NoPiece

\* Board.is_zeroing(move): a pawn move or a capture
is_zeroing(b, m) ==
    \/ piece_type(b.pieces[m.from_square + 1]) = "p"
    \/ piece_type(b.pieces[m.to_square + 1]) = "p"
    \/ b.pieces[m.from_square + 1] \in OwnSymbols(~b.turn)
    \/ b.pieces[m.to_square + 1] \in OwnSymbols(~b.turn)
    \/ m.drop = "p"

\* Board.is_pseudo_legal(move)
is_pseudo_legal(b, m) ==
    IF ~move_bool(m) THEN FALSE
    ELSE IF m.drop # NoPiece THEN FALSE
    ELSE IF b.pieces[m.from_square + 1] = NoPiece THEN FALSE
    ELSE IF b.pieces[m.from_square + 1] \notin OwnSymbols(b.turn) THEN FALSE
    ELSE IF /\ m.promotion # NoPiece
            /\ \/ piece_type(b.pieces[m.from_square + 1]) # "p"
               \/ b.turn = WHITE /\ square_rank(m.to_square) # 7
               \/ b.turn = BLACK /\ square_rank(m.to_square) # 0
    THEN FALSE
    ELSE IF /\ piece_type(b.pieces[m.from_square + 1]) = "k"
            /\ from_chess960(b, Move(m.from_square, m.to_square, NoPiece, NoPiece))
                  \in generate_castling_moves(b)
    THEN TRUE
    ELSE IF b.pieces[m.to_square + 1] \in OwnSymbols(b.turn) THEN FALSE
    ELSE IF piece_type(b.pieces[m.from_square + 1]) = "p"
    THEN m \in generate_pseudo_legal_moves(b)
    ELSE m.to_square \in Targets(b, m.from_square)

\* the placement after the piece on from_square has gone to to_square
PiecesAfter(b, m) ==
    LET down == IF b.turn = WHITE THEN 0 - 8 ELSE 8
        gone == IF is_en_passant(b, m)
                THEN {m.from_square, b.ep_square + down}
                ELSE {m.from_square}
    IN  [i \in 1 .. 64 |->
            IF i - 1 = m.to_square THEN b.pieces[m.from_square + 1]
            ELSE IF i - 1 \in gone THEN NoPiece
            ELSE b.pieces[i]]

\* Board.is_into_check(move): the move leaves the mover's king attacked
is_into_check(b, m) ==
    LET k == king(b.pieces, b.turn)
    IN  IF k = NoSquare THEN FALSE
        ELSE IF m.from_square = k /\ is_castling(b, m) THEN is_check(b)
        ELSE is_attacked_by(PiecesAfter(b, m), ~b.turn,
                            IF m.from_square = k THEN m.to_square ELSE k)

\* Board.is_legal(move), what `move in board.legal_moves` evaluates
is_legal(b, m) == is_pseudo_legal(b, m) /\ ~is_into_check(b, m)

\* Board.generate_legal_moves(), what iterating board.legal_moves yields
generate_legal_moves(b) ==
    {m \in generate_pseudo_legal_moves(b) : ~is_into_check(b, m)}
        \cup generate_castling_moves(b)

\* Board.has_legal_en_passant()
has_legal_en_passant(b) ==
    /\ b.ep_square # NoSquare
    /\ \E m \in generate_pseudo_legal_moves(b) :
          is_en_passant(b, m) /\ ~is_into_check(b, m)

(***************************************************************************)
(* chess.Board.push(move)                                                  *)
(***************************************************************************)
\* the placement push() leaves: the mover's colour is the side to move
PushPieces(b, cm, ep_before) ==
    LET from == cm.from_square
        to == cm.to_square
        pt == piece_type(b.pieces[from + 1])
        r == IF b.turn = WHITE THEN 0 ELSE 7
        down == IF b.turn = WHITE THEN 0 - 8 ELSE 8
        diff == to - from
        ep_capture == /\ pt = "p"
                      /\ ~(diff = 16 /\ square_rank(from) = 1)
                      /\ ~(diff = 0 - 16 /\ square_rank(from) = 6)
                      /\ to = ep_before
                      /\ Abs(diff) \in {7, 9}
                      /\ b.pieces[to + 1] = NoPiece
        placed == IF cm.promotion # NoPiece THEN cm.promotion ELSE pt
        castling == placed = "k" /\ b.pieces[to + 1] \in OwnSymbols(b.turn)
        a_side == square_file(to) < square_file(from)
    IN  [i \in 1 .. 64 |->
            IF castling
            THEN IF i - 1 = square(IF a_side THEN 2 ELSE 6, r)
                 THEN piece_symbol("k", b.turn)
                 ELSE IF i - 1 = square(IF a_side THEN 3 ELSE 5, r)
                 THEN piece_symbol("r", b.turn)
                 ELSE IF i - 1 \in {from, to} THEN NoPiece
                 ELSE b.pieces[i]
            ELSE IF i - 1 = to THEN piece_symbol(placed, b.turn)
            ELSE IF i - 1 = from THEN NoPiece
            ELSE IF ep_capture /\ i - 1 = ep_before + down THEN NoPiece
            ELSE b.pieces[i]]

\* the castling rights push() leaves
PushCastlingRights(b, cm) ==
    LET cleaned == clean_castling_rights(b) \ {cm.from_square, cm.to_square}
        rank == IF b.turn = WHITE THEN 0 ELSE 7
    IN  IF piece_type(b.pieces[cm.from_square + 1]) = "k"
        THEN {sq \in cleaned : square_rank(sq) # rank}
        ELSE cleaned

\* the en passant square push() leaves
PushEpSquare(b, cm) ==
    LET diff == cm.to_square - cm.from_square
    IN  IF piece_type(b.pieces[cm.from_square + 1]) = "p"
        THEN IF diff = 16 /\ square_rank(cm.from_square) = 1
             THEN cm.from_square + 8
             ELSE IF diff = 0 - 16 /\ square_rank(cm.from_square) = 6
             THEN cm.from_square - 8
             ELSE NoSquare
        ELSE NoSquare

\* Board.push(move): the board it leaves, and whether its assertion
\* "push() expects move to be pseudo-legal" (an empty from_square) raised,
\* which leaves the counters and the stacks changed and the placement not
push(b, m) ==
    LET cm == to_chess960(b, m)
        counted == [b EXCEPT
            !.castling_rights = clean_castling_rights(b),
            !.move_stack = Append(b.move_stack, from_chess960(b, cm)),
            !.stack = Append(b.stack, board_state(b)),
            !.ep_square = NoSquare,
            !.halfmove_clock = IF move_bool(cm) /\ is_zeroing(b, cm)
                               THEN 0 ELSE b.halfmove_clock + 1,
            !.fullmove_number = IF b.turn = BLACK THEN b.fullmove_number + 1
                                ELSE b.fullmove_number]
    IN  IF ~move_bool(cm)
        THEN [raised |-> FALSE, board |-> [counted EXCEPT !.turn = ~b.turn]]
        ELSE IF b.pieces[cm.from_square + 1] = NoPiece
        THEN [raised |-> TRUE, board |-> counted]
        ELSE [raised |-> FALSE,
              board |-> [counted EXCEPT
                  !.pieces = PushPieces(b, cm, b.ep_square),
                  !.castling_rights = PushCastlingRights(b, cm),
                  !.ep_square = PushEpSquare(b, cm),
                  !.turn = ~b.turn]]

\* Board.pop(): the move it takes off the move stack and the board restored
\* from Board._stack; raised stands for the IndexError of an empty move stack
pop(b) ==
    IF b.move_stack = <<>>
    THEN [raised |-> TRUE, move |-> NullMove, board |-> b]
    ELSE LET n == Len(b.stack)
             saved == b.stack[n]
         IN  [raised |-> FALSE,
              move |-> b.move_stack[Len(b.move_stack)],
              board |-> [pieces |-> saved.pieces, turn |-> saved.turn,
                         castling_rights |-> saved.castling_rights,
                         ep_square |-> saved.ep_square,
                         halfmove_clock |-> saved.halfmove_clock,
                         fullmove_number |-> saved.fullmove_number,
                         move_stack |-> SubSeq(b.move_stack, 1, Len(b.move_stack) - 1),
                         stack |-> SubSeq(b.stack, 1, n - 1)]]

(***************************************************************************)
(* chess.Board: the end of the game and the claimable draws                *)
(***************************************************************************)
\* Board.is_checkmate()
is_checkmate(b) == is_check(b) /\ generate_legal_moves(b) = {}

\* Board.is_stalemate()
is_stalemate(b) == ~is_check(b) /\ generate_legal_moves(b) = {}

SquaresOf(b, syms) == {sq \in Squares : b.pieces[sq + 1] \in syms}
IsDarkSquare(sq) == (square_file(sq) + square_rank(sq)) % 2 = 0

\* Board.has_insufficient_material(color)
has_insufficient_material(b, color) ==
    LET own == OwnSymbols(color)
        bishops == SquaresOf(b, {"B", "b"})
    IN  IF SquaresOf(b, own \cap {"P", "p", "R", "r", "Q", "q"}) # {} THEN FALSE
        ELSE IF SquaresOf(b, own \cap {"N", "n"}) # {}
        THEN /\ Cardinality(SquaresOf(b, own)) <= 2
             /\ SquaresOf(b, OwnSymbols(~color) \ {"K", "k", "Q", "q"}) = {}
        ELSE IF SquaresOf(b, own \cap {"B", "b"}) # {}
        THEN /\ \/ \A sq \in bishops : IsDarkSquare(sq)
                \/ \A sq \in bishops : ~IsDarkSquare(sq)
             /\ SquaresOf(b, {"P", "p", "N", "n"}) = {}
        ELSE TRUE

\* Board.is_insufficient_material()
is_insufficient_material(b) ==
    has_insufficient_material(b, WHITE) /\ has_insufficient_material(b, BLACK)

\* Board.is_fifty_moves(): _is_halfmoves(100)
is_fifty_moves(b) == b.halfmove_clock >= 100 /\ generate_legal_moves(b) # {}

\* Board.can_claim_fifty_moves(): now, or after one more quiet legal move
can_claim_fifty_moves(b) ==
    \/ is_fifty_moves(b)
    \/ /\ b.halfmove_clock >= 99
       /\ \E m \in generate_legal_moves(b) :
             ~is_zeroing(b, m) /\ is_fifty_moves(push(b, m).board)

\* Board._transposition_key()
transposition_key(b) ==
    <<b.pieces, b.turn, clean_castling_rights(b),
      IF has_legal_en_passant(b) THEN b.ep_square ELSE NoSquare>>

\* Board._reduces_castling_rights(move)
reduces_castling_rights(b, m) ==
    LET cr == clean_castling_rights(b)
    IN  \/ {m.from_square, m.to_square} \cap cr # {}
        \/ /\ \E sq \in cr : square_rank(sq) = 0
           /\ "K" \in {b.pieces[m.from_square + 1], b.pieces[m.to_square + 1]}
        \/ /\ \E sq \in cr : square_rank(sq) = 7
           /\ "k" \in {b.pieces[m.from_square + 1], b.pieces[m.to_square + 1]}

\* Board.is_irreversible(move)
is_irreversible(b, m) ==
    is_zeroing(b, m) \/ reduces_castling_rights(b, m) \/ has_legal_en_passant(b)

\* the earlier positions can_claim_threefold_repetition() counts: it pops the
\* move stack down to the last irreversible move (and pushes the moves back)
RECURSIVE CountedPositions(_, _)
CountedPositions(b, i) ==
    IF i = 0 THEN <<>>
    ELSE IF is_irreversible(b.stack[i], b.move_stack[i])
    THEN <<>>
    ELSE Append(CountedPositions(b, i - 1), transposition_key(b.stack[i]))

Occurrences(keys, key) == Cardinality({i \in 1 .. Len(keys) : keys[i] = key})

\* Board.can_claim_threefold_repetition()
can_claim_threefold_repetition(b) ==
    LET earlier == CountedPositions(b, Len(b.stack))
        seen == Append(earlier, transposition_key(b))
    IN  \/ Occurrences(seen, transposition_key(b)) >= 3
        \/ \E m \in generate_legal_moves(b) :
              Occurrences(seen, transposition_key(push(b, m).board)) >= 2

(***************************************************************************)
(* chess_engine.py: GameState, InMemoryGameStore, compute_game_status,     *)
(* try_apply_move                                                          *)
(***************************************************************************)
\* the tokens secrets.token_urlsafe(12) may return
GameIds == {"g1", "g2"}
\* the values int(time.time() * 1000) may take
Times == {1000, 2000}

\* a move text: the characters of MoveRequest.uci
T2(a, b) == <<a, b>>
T4(a, b, c, d) == <<a, b, c, d>>
T5(a, b, c, d, e) == <<a, b, c, d, e>>

\* the texts the requests of the model submit
MoveTexts ==
    {T4("e", "2", "e", "4"), T4("f", "1", "c", "4"), T4("g", "1", "e", "2"),
     T4("e", "1", "g", "1"), T4("e", "1", "h", "1"),
     T4("g", "8", "f", "6"), T4("f", "6", "g", "8"),
     T4("e", "2", "e", "5"), T4("0", "0", "0", "0"),
     T5("e", "7", "e", "8", "k"), T2("e", "2")}

\* the texts of a long line of play: the king's knights go out and back
ShuffleTexts ==
    {T4("g", "1", "f", "3"), T4("f", "3", "g", "1"),
     T4("g", "8", "f", "6"), T4("f", "6", "g", "8")}

\* the texts submitted while get-state requests run
ReadTexts == {T4("e", "2", "e", "4"), T4("g", "8", "f", "6"), T4("e", "2", "e", "5")}

\* the texts the concurrent requests of the model submit
ConcTexts ==
    {T4("e", "2", "e", "4"), T4("d", "2", "d", "4"), T4("g", "8", "f", "6"),
     T2("e", "2")}

\* GameState(game_id, created_at_ms): a new board, an empty history
GameState(game_id, created_at_ms) ==
    [game_id |-> game_id, created_at_ms |-> created_at_ms,
     board |-> NewBoard, move_history_uci |-> <<>>]

VARIABLES
    games,      \* STORE._games: game id -> GameState
    resp,       \* the response of the last request that returned
    req,        \* per worker thread: the request it is serving
    position,   \* the board handed to compute_game_status
    status      \* what compute_game_status returned for it

vars == <<games, resp, req, position, status>>

Live == DOMAIN games

\* InMemoryGameStore.get_game: None is modelled by the id not being live
get_game(store, game_id) == store[game_id]

\* PutGame, had the games shared one board (a default instead of a default_factory)
PutGameSharedBoard(store, game) ==
    [id \in DOMAIN store \cup {game.game_id} |->
        IF id = game.game_id THEN game ELSE [store[id] EXCEPT !.board = game.board]]

\* the store after `game` is written under its id, the other entries as they were
PutGame(store, game) ==
    [id \in DOMAIN store \cup {game.game_id} |->
        IF id = game.game_id THEN game ELSE store[id]]

\* DropGame, had delete_game looked the id up without removing it
DropGameKeeps(store, game_id) == store

\* InMemoryGameStore.delete_game: self._games.pop(game_id, None)
DropGame(store, game_id) == [id \in DOMAIN store \ {game_id} |-> store[id]]

\* compute_game_status, had it named the side to move as the winner
compute_game_status_mover_wins(b) ==
    IF is_checkmate(b)
    THEN <<"checkmate", IF b.turn = WHITE THEN "white" ELSE "black">>
    ELSE IF is_stalemate(b) THEN <<"stalemate", "None">>
    ELSE IF is_insufficient_material(b) THEN <<"draw_insufficient_material", "None">>
    ELSE IF can_claim_fifty_moves(b) THEN <<"draw_fifty_move_rule_claimable", "None">>
    ELSE IF can_claim_threefold_repetition(b)
    THEN <<"draw_threefold_repetition_claimable", "None">>
    ELSE IF is_check(b) THEN <<"check", "None">>
    ELSE <<"active", "None">>

\* compute_game_status, had it tested check before the claimable draws
compute_game_status_check_first(b) ==
    IF is_checkmate(b)
    THEN <<"checkmate", IF b.turn = WHITE THEN "black" ELSE "white">>
    ELSE IF is_stalemate(b) THEN <<"stalemate", "None">>
    ELSE IF is_insufficient_material(b) THEN <<"draw_insufficient_material", "None">>
    ELSE IF is_check(b) THEN <<"check", "None">>
    ELSE IF can_claim_fifty_moves(b) THEN <<"draw_fifty_move_rule_claimable", "None">>
    ELSE IF can_claim_threefold_repetition(b)
    THEN <<"draw_threefold_repetition_claimable", "None">>
    ELSE <<"active", "None">>

\* compute_game_status(board): <<status, winner>>
compute_game_status(b) ==
    IF is_checkmate(b)
    THEN <<"checkmate", IF b.turn = WHITE THEN "black" ELSE "white">>
    ELSE IF is_stalemate(b) THEN <<"stalemate", "None">>
    ELSE IF is_insufficient_material(b) THEN <<"draw_insufficient_material", "None">>
    ELSE IF can_claim_fifty_moves(b) THEN <<"draw_fifty_move_rule_claimable", "None">>
    ELSE IF can_claim_threefold_repetition(b)
    THEN <<"draw_threefold_repetition_claimable", "None">>
    ELSE IF is_check(b) THEN <<"check", "None">>
    ELSE <<"active", "None">>

\* try_apply_move, had it taken the null move for a legal one
try_apply_move_accepts_null(game, uci) ==
    LET parsed == from_uci(uci)
    IN  IF ~parsed.ok
        THEN [ok |-> FALSE, error |-> "Invalid UCI move format.", game |-> game]
        ELSE IF move_bool(parsed.move) /\ ~is_legal(game.board, parsed.move)
        THEN [ok |-> FALSE, error |-> "Illegal move for current position.",
              game |-> game]
        ELSE [ok |-> TRUE, error |-> "",
              game |-> [game EXCEPT
                  !.board = push(game.board, parsed.move).board,
                  !.move_history_uci = Append(game.move_history_uci, uci)]]

\* try_apply_move, had it refused every move once a draw can be claimed
try_apply_move_ends_at_claimable_draw(game, uci) ==
    LET parsed == from_uci(uci)
    IN  IF ~parsed.ok
        THEN [ok |-> FALSE, error |-> "Invalid UCI move format.", game |-> game]
        ELSE IF \/ ~is_legal(game.board, parsed.move)
                \/ compute_game_status(game.board)[1] \in
                      {"draw_fifty_move_rule_claimable",
                       "draw_threefold_repetition_claimable"}
        THEN [ok |-> FALSE, error |-> "Illegal move for current position.",
              game |-> game]
        ELSE [ok |-> TRUE, error |-> "",
              game |-> [game EXCEPT
                  !.board = push(game.board, parsed.move).board,
                  !.move_history_uci = Append(game.move_history_uci, uci)]]

\* try_apply_move, had it recorded the text before it tested the move
try_apply_move_records_first(game, uci) ==
    LET parsed == from_uci(uci)
        recorded == [game EXCEPT !.move_history_uci = Append(@, uci)]
    IN  IF ~parsed.ok
        THEN [ok |-> FALSE, error |-> "Invalid UCI move format.", game |-> game]
        ELSE IF ~is_legal(game.board, parsed.move)
        THEN [ok |-> FALSE, error |-> "Illegal move for current position.",
              game |-> recorded]
        ELSE [ok |-> TRUE, error |-> "",
              game |-> [recorded EXCEPT
                  !.board = push(game.board, parsed.move).board]]

\* try_apply_move(game, uci): ok, the error message, and the game it leaves
try_apply_move(game, uci) ==
    LET parsed == from_uci(uci)
    IN  IF ~parsed.ok
        THEN [ok |-> FALSE, error |-> "Invalid UCI move format.", game |-> game]
        ELSE IF ~is_legal(game.board, parsed.move)
        THEN [ok |-> FALSE, error |-> "Illegal move for current position.",
              game |-> game]
        ELSE [ok |-> TRUE, error |-> "",
              game |-> [game EXCEPT
                  !.board = push(game.board, parsed.move).board,
                  !.move_history_uci = Append(game.move_history_uci, uci)]]

\* restart_game, had it emptied the history and kept the board
restart_game_keeps_board(game) == [game EXCEPT !.move_history_uci = <<>>]

\* restart_game, had it reset the board and kept the history
restart_game_keeps_history(game) == [game EXCEPT !.board = NewBoard]

\* InMemoryGameStore.restart_game: the game it leaves
restart_game(game) ==
    [game EXCEPT !.board = NewBoard, !.move_history_uci = <<>>]

(***************************************************************************)
(* main.py: the responses                                                  *)
(***************************************************************************)
\* board_to_piece_placement(board): rank 8 first, file a first
board_to_piece_placement(b) ==
    [row \in 1 .. 8 |-> [col \in 1 .. 8 |-> piece_at(b, square(col - 1, 8 - row))]]

\* the legal_moves_uci field of _state_to_response: [m.uci() for m in legal_moves]
legal_moves_uci(b) == {move_uci(m) : m \in generate_legal_moves(b)}

\* _state_to_response(game), the fen field aside
state_to_response(game) ==
    [game_id |-> game.game_id,
     created_at_ms |-> game.created_at_ms,
     turn |-> IF game.board.turn THEN "white" ELSE "black",
     status |-> compute_game_status(game.board)[1],
     winner |-> compute_game_status(game.board)[2],
     pieces |-> board_to_piece_placement(game.board),
     legal_moves_uci |-> legal_moves_uci(game.board),
     move_history_uci |-> game.move_history_uci]

\* A response: the HTTP status code, and the fields of the body.  `state` is
\* the id of the game whose _state_to_response the body carries, "None" when
\* it carries none; the view itself is state_to_response of that game.
Response(op, game_id, code, ok, error, state) ==
    [op |-> op, game_id |-> game_id, status_code |-> code, ok |-> ok,
     error |-> error, state |-> state]

\* NotFound, had the handlers answered an unknown id in the body, ok = false
NotFoundInBody(op, game_id) ==
    Response(op, game_id, 200, FALSE, "Game not found.", "None")

\* raise HTTPException(status_code=404, detail="Game not found.")
NotFound(op, game_id) == Response(op, game_id, 404, FALSE, "Game not found.", "None")

NoResponse == Response("None", "None", 0, FALSE, "None", "None")

\* a worker thread that serves no request.  key, seen, switchyard and todo are
\* the locals of Board.can_claim_threefold_repetition: transposition_key, the
\* keys counted in transpositions, switchyard, and the moves its last loop has
\* still to try
Idle == [pc |-> "idle", op |-> "None", game_id |-> "None", uci |-> <<>>,
         move |-> NullMove, key |-> <<>>, seen |-> <<>>, switchyard |-> <<>>,
         todo |-> {}]

Threads == {"t1", "t2"}

\* the worker threads that serve the get_game_state requests of the model
Readers == {"t1"}

\* compute_game_status has not been called
NotComputed == <<"None", "None">>

TotalPlies(store) ==
    LET RECURSIVE Sum(_)
        Sum(S) == IF S = {} THEN 0
                  ELSE LET id == CHOOSE x \in S : TRUE
                       IN  Len(store[id].board.move_stack) + Sum(S \ {id})
    IN  Sum(DOMAIN store)

Init ==
    /\ games = [id \in {} |-> GameState(id, 0)]
    /\ resp = NoResponse
    /\ req = [t \in Threads |-> Idle]
    /\ position = NewBoard
    /\ status = NotComputed

(***************************************************************************)
(* The requests, each served to its end before the next one starts         *)
(***************************************************************************)
\* POST /games: create_game, InMemoryGameStore.create_game
CreateGame(game_id, now) ==
    /\ games' = PutGame(games, GameState(game_id, now))
    /\ resp' = Response("create_game", game_id, 200, TRUE, "None", "None")
    /\ UNCHANGED <<req, position, status>>

\* GET /games/{game_id}: get_game_state
GetGameState(game_id) ==
    /\ resp' = IF game_id \notin Live THEN NotFound("get_game_state", game_id)
               ELSE Response("get_game_state", game_id, 200, TRUE, "None", game_id)
    /\ UNCHANGED <<games, req, position, status>>

\* POST /games/{game_id}/moves: submit_move, while fewer than max_plies moves
\* have been applied
SubmitMoveWithin(game_id, uci, max_plies) ==
    /\ IF game_id \notin Live
       THEN /\ resp' = NotFound("submit_move", game_id)
            /\ games' = games
       ELSE LET r == try_apply_move(get_game(games, game_id), uci)
            IN  /\ r.ok => TotalPlies(games) < max_plies
                /\ games' = PutGame(games, r.game)
                /\ resp' = IF r.ok
                           THEN Response("submit_move", game_id, 200, TRUE, "None",
                                         game_id)
                           ELSE Response("submit_move", game_id, 200, FALSE, r.error,
                                         "None")
    /\ UNCHANGED <<req, position, status>>

\* POST /games/{game_id}/moves: submit_move
SubmitMove(game_id, uci) == SubmitMoveWithin(game_id, uci, MaxPlies)

\* POST /games/{game_id}/restart: restart_game, InMemoryGameStore.restart_game
RestartGame(game_id) ==
    /\ IF game_id \notin Live
       THEN /\ resp' = NotFound("restart_game", game_id)
            /\ games' = games
       ELSE /\ games' = PutGame(games, restart_game(get_game(games, game_id)))
            /\ resp' = Response("restart_game", game_id, 200, TRUE, "None", game_id)
    /\ UNCHANGED <<req, position, status>>

\* InMemoryGameStore.delete_game: ok is the boolean it returns
DeleteGame(game_id) ==
    /\ games' = DropGame(games, game_id)
    /\ resp' = Response("delete_game", game_id, 0, game_id \in Live, "None", "None")
    /\ UNCHANGED <<req, position, status>>

Next ==
    \/ \E game_id \in GameIds, now \in Times : CreateGame(game_id, now)
    \/ \E game_id \in GameIds : GetGameState(game_id)
    \/ \E game_id \in GameIds, uci \in MoveTexts : SubmitMove(game_id, uci)
    \/ \E game_id \in GameIds : RestartGame(game_id)
    \/ \E game_id \in GameIds : DeleteGame(game_id)

Spec == Init /\ [][Next]_vars

(***************************************************************************)
(* The requests as the server runs them: the handlers are plain `def`      *)
(* functions, which FastAPI runs on worker threads, and neither the store  *)
(* nor a game holds a lock.  A thread's step is one access to the shared   *)
(* store or game.                                                          *)
(***************************************************************************)
SetReq(t, pc, op, game_id, uci, move) ==
    [req EXCEPT ![t] = [Idle EXCEPT !.pc = pc, !.op = op, !.game_id = game_id,
                                    !.uci = uci, !.move = move]]

\* create_game on an empty store
ConcCreateGame(game_id, now) == Live = {} /\ CreateGame(game_id, now)

\* submit_move: STORE.get_game(game_id), then try_apply_move's Move.from_uci(uci)
SubmitLookup(t, game_id, uci) ==
    /\ req[t].pc = "idle"
    /\ IF game_id \notin Live
       THEN resp' = NotFound("submit_move", game_id) /\ req' = req
       ELSE IF ~from_uci(uci).ok
       THEN /\ resp' = Response("submit_move", game_id, 200, FALSE,
                                "Invalid UCI move format.", "None")
            /\ req' = req
       ELSE /\ req' = SetReq(t, "check", "submit_move", game_id, uci, from_uci(uci).move)
            /\ resp' = resp
    /\ UNCHANGED <<games, position, status>>

\* try_apply_move: `move not in game.board.legal_moves`
SubmitCheck(t) ==
    /\ req[t].pc = "check"
    /\ IF is_legal(games[req[t].game_id].board, req[t].move)
       THEN /\ req' = [req EXCEPT ![t].pc = "push"]
            /\ resp' = resp
       ELSE /\ req' = [req EXCEPT ![t] = Idle]
            /\ resp' = Response("submit_move", req[t].game_id, 200, FALSE,
                                "Illegal move for current position.", "None")
    /\ UNCHANGED <<games, position, status>>

\* try_apply_move: game.board.push(move); an AssertionError of push ends the
\* request with status 500
SubmitPush(t) ==
    /\ req[t].pc = "push"
    /\ Len(games[req[t].game_id].board.move_stack) < MaxConcPlies
    /\ LET r == push(games[req[t].game_id].board, req[t].move)
       IN  /\ games' = [games EXCEPT ![req[t].game_id].board = r.board]
           /\ IF r.raised
              THEN /\ req' = [req EXCEPT ![t] = Idle]
                   /\ resp' = Response("submit_move", req[t].game_id, 500, FALSE,
                                       "Internal Server Error", "None")
              ELSE /\ req' = [req EXCEPT ![t].pc = "append"]
                   /\ resp' = resp
    /\ UNCHANGED <<position, status>>

\* try_apply_move: game.move_history_uci.append(uci)
SubmitAppend(t) ==
    /\ req[t].pc = "append"
    /\ games' = [games EXCEPT ![req[t].game_id].move_history_uci =
                                  Append(@, req[t].uci)]
    /\ req' = [req EXCEPT ![t].pc = "respond"]
    /\ resp' = resp
    /\ UNCHANGED <<position, status>>

\* InMemoryGameStore.restart_game: self._games.get, game.board = chess.Board()
RestartBoard(t, game_id) ==
    /\ req[t].pc = "idle"
    /\ IF game_id \notin Live
       THEN resp' = NotFound("restart_game", game_id) /\ req' = req /\ games' = games
       ELSE /\ games' = [games EXCEPT ![game_id].board = NewBoard]
            /\ req' = SetReq(t, "history", "restart_game", game_id, <<>>, NullMove)
            /\ resp' = resp
    /\ UNCHANGED <<position, status>>

\* InMemoryGameStore.restart_game: game.move_history_uci = []
RestartHistory(t) ==
    /\ req[t].pc = "history"
    /\ games' = [games EXCEPT ![req[t].game_id].move_history_uci = <<>>]
    /\ req' = [req EXCEPT ![t].pc = "respond"]
    /\ resp' = resp
    /\ UNCHANGED <<position, status>>

\* submit_move / restart_game: the response built by _state_to_response(game)
Respond(t) ==
    /\ req[t].pc = "respond"
    /\ resp' = Response(req[t].op, req[t].game_id, 200, TRUE, "None", req[t].game_id)
    /\ req' = [req EXCEPT ![t] = Idle]
    /\ UNCHANGED <<games, position, status>>

NextConc ==
    \/ \E game_id \in GameIds, now \in Times : ConcCreateGame(game_id, now)
    \/ \E t \in Threads, game_id \in GameIds, uci \in ConcTexts :
          SubmitLookup(t, game_id, uci)
    \/ \E t \in Threads : SubmitCheck(t)
    \/ \E t \in Threads : SubmitPush(t)
    \/ \E t \in Threads : SubmitAppend(t)
    \/ \E t \in Threads, game_id \in GameIds : RestartBoard(t, game_id)
    \/ \E t \in Threads : RestartHistory(t)
    \/ \E t \in Threads : Respond(t)

SpecConc == Init /\ [][NextConc]_vars

(***************************************************************************)
(* compute_game_status as a function of the board: the boards it is given  *)
(***************************************************************************)
\* a position of a game in progress: no castling rights left, `clock`
\* half-moves since the last capture or pawn move
EndgameBoard(placement, turn, clock) ==
    [pieces |-> [i \in 1 .. 64 |->
                    IF \E p \in placement : square_index(p[1], p[2]) = i - 1
                    THEN (CHOOSE p \in placement : square_index(p[1], p[2]) = i - 1)[3]
                    ELSE NoPiece],
     turn |-> turn, castling_rights |-> {}, ep_square |-> NoSquare,
     halfmove_clock |-> clock, fullmove_number |-> 60 + clock,
     move_stack |-> <<>>, stack |-> <<>>]

\* the board after the moves of `line`, each pushed as try_apply_move does
RECURSIVE Play(_, _)
Play(b, line) ==
    IF line = <<>> THEN b
    ELSE Play(push(b, from_uci(Head(line)).move).board, Tail(line))

Prefixes(line) == {SubSeq(line, 1, k) : k \in 0 .. Len(line)}

\* queen and king against king: the queen checks from e8 and from h5 in turn
PerpetualPlacement == {<<"a", "1", "K">>, <<"h", "5", "Q">>, <<"g", "8", "k">>}
PerpetualLine ==
    <<T4("h", "5", "e", "8"), T4("g", "8", "h", "7"), T4("e", "8", "h", "5"),
      T4("h", "7", "g", "8"), T4("h", "5", "e", "8"), T4("g", "8", "h", "7"),
      T4("e", "8", "h", "5"), T4("h", "7", "g", "8"), T4("h", "5", "e", "8")>>

\* 1. f3 e5 2. g4 Qh4#
FoolsMateLine ==
    <<T4("f", "2", "f", "3"), T4("e", "7", "e", "5"), T4("g", "2", "g", "4"),
      T4("d", "8", "h", "4")>>

\* the knights go out and back twice
KnightsLine ==
    <<T4("g", "1", "f", "3"), T4("g", "8", "f", "6"), T4("f", "3", "g", "1"),
      T4("f", "6", "g", "8"), T4("g", "1", "f", "3"), T4("g", "8", "f", "6"),
      T4("f", "3", "g", "1"), T4("f", "6", "g", "8")>>

\* <<placement, side to move>>
EndgamePlacements ==
    {<<{<<"b", "6", "K">>, <<"c", "7", "B">>, <<"a", "8", "k">>}, BLACK>>,
     <<{<<"a", "1", "K">>, <<"a", "3", "k">>, <<"b", "3", "q">>}, WHITE>>,
     <<{<<"g", "6", "K">>, <<"g", "7", "Q">>, <<"h", "8", "k">>}, BLACK>>,
     <<{<<"c", "7", "K">>, <<"d", "5", "B">>, <<"a", "8", "k">>}, BLACK>>,
     <<{<<"e", "1", "K">>, <<"e", "8", "k">>}, WHITE>>,
     <<{<<"e", "1", "K">>, <<"a", "1", "R">>, <<"e", "8", "k">>}, BLACK>>,
     <<{<<"e", "1", "K">>, <<"b", "1", "N">>, <<"e", "8", "k">>, <<"e", "7", "r">>},
       WHITE>>}

\* the half-move clocks the endgame positions start from
BaseClocks == {0, 98, 99}

StatusInputs ==
    {Play(NewBoard, line) : line \in Prefixes(FoolsMateLine) \cup Prefixes(KnightsLine)}
    \cup {Play(EndgameBoard(PerpetualPlacement, WHITE, clock), line) :
            clock \in BaseClocks, line \in Prefixes(PerpetualLine)}
    \cup {EndgameBoard(e[1], e[2], clock) : e \in EndgamePlacements, clock \in BaseClocks}

InitStatus ==
    /\ games = [id \in {} |-> GameState(id, 0)]
    /\ resp = NoResponse
    /\ req = [t \in Threads |-> Idle]
    /\ position \in StatusInputs
    /\ status = NotComputed

\* _state_to_response: status, winner = compute_game_status(game.board)
ComputeStatus ==
    /\ status = NotComputed
    /\ status' = compute_game_status(position)
    /\ UNCHANGED <<games, resp, req, position>>

NextStatus == ComputeStatus

SpecStatus == InitStatus /\ [][NextStatus]_vars

(***************************************************************************)
(* A long line of play on the one game of the store: the knights go out    *)
(* and back until the half-move clock passes 100                           *)
(***************************************************************************)
\* submit_move with a text of the line
LongSubmitMove(game_id, uci) == SubmitMoveWithin(game_id, uci, MaxLongPlies)

NextLong ==
    \/ \E game_id \in GameIds, now \in Times : ConcCreateGame(game_id, now)
    \/ \E game_id \in GameIds : GetGameState(game_id)
    \/ \E game_id \in GameIds, uci \in ShuffleTexts : LongSubmitMove(game_id, uci)
    \/ \E game_id \in GameIds : RestartGame(game_id)

SpecLong == Init /\ [][NextLong]_vars

(***************************************************************************)
(* get_game_state as the server runs it, on worker threads.  Its           *)
(* compute_game_status calls Board.can_claim_threefold_repetition, which   *)
(* takes the moves off the game's board down to the last irreversible one, *)
(* pushes them back, and then pushes and pops each legal move in turn.  A  *)
(* thread's step is one push or pop on the board of the game.              *)
(***************************************************************************)
\* submit_move, run to its end between two steps of the get_game_state threads
ReadSubmitMove(game_id, uci) ==
    /\ IF game_id \notin Live
       THEN /\ resp' = NotFound("submit_move", game_id)
            /\ games' = games
       ELSE LET r == try_apply_move(get_game(games, game_id), uci)
            IN  /\ r.ok => Len(games[game_id].move_history_uci) < MaxReadPlies
                /\ games' = PutGame(games, r.game)
                /\ resp' = IF r.ok
                           THEN Response("submit_move", game_id, 200, TRUE, "None",
                                         game_id)
                           ELSE Response("submit_move", game_id, 200, FALSE, r.error,
                                         "None")
    /\ UNCHANGED <<req, position, status>>

\* get_game_state: STORE.get_game, then compute_game_status down to the start
\* of can_claim_threefold_repetition (the tests before it only read the board
\* while the half-move clock is below 99)
GetLookup(t, game_id) ==
    /\ req[t].pc = "idle"
    /\ IF game_id \notin Live
       THEN resp' = NotFound("get_game_state", game_id) /\ req' = req
       ELSE LET b == games[game_id].board
            IN  /\ resp' = resp
                /\ IF \/ is_checkmate(b) \/ is_stalemate(b)
                      \/ is_insufficient_material(b) \/ can_claim_fifty_moves(b)
                   THEN req' = SetReq(t, "respond", "get_game_state", game_id, <<>>,
                                      NullMove)
                   ELSE req' = [req EXCEPT ![t] =
                                   [Idle EXCEPT !.pc = "unwind",
                                                !.op = "get_game_state",
                                                !.game_id = game_id,
                                                !.key = transposition_key(b),
                                                !.seen = <<transposition_key(b)>>]]
    /\ UNCHANGED <<games, position, status>>

\* can_claim_threefold_repetition: `while self.move_stack: move = self.pop()`
GetUnwind(t) ==
    /\ req[t].pc = "unwind"
    /\ LET r == pop(games[req[t].game_id].board)
       IN  IF r.raised
           THEN /\ req' = [req EXCEPT ![t].pc = "rewind"]
                /\ games' = games
           ELSE /\ games' = [games EXCEPT ![req[t].game_id].board = r.board]
                /\ req' = [req EXCEPT
                      ![t].switchyard = Append(@, r.move),
                      ![t].seen = IF is_irreversible(r.board, r.move) THEN @
                                  ELSE Append(@, transposition_key(r.board)),
                      ![t].pc = IF is_irreversible(r.board, r.move)
                                THEN "rewind" ELSE "unwind"]
    /\ UNCHANGED <<resp, position, status>>

\* can_claim_threefold_repetition: `while switchyard: self.push(switchyard.pop())`,
\* then the count of the position, then the start of the loop over the legal moves
GetRewind(t) ==
    /\ req[t].pc = "rewind"
    /\ LET b == games[req[t].game_id].board
           n == Len(req[t].switchyard)
       IN  IF n = 0
           THEN /\ games' = games
                /\ resp' = resp
                /\ req' = IF Occurrences(req[t].seen, req[t].key) >= 3
                          THEN [req EXCEPT ![t].pc = "respond"]
                          ELSE [req EXCEPT ![t].pc = "probe",
                                           ![t].todo = generate_legal_moves(b)]
           ELSE LET r == push(b, req[t].switchyard[n])
                IN  /\ games' = [games EXCEPT ![req[t].game_id].board = r.board]
                    /\ IF r.raised
                       THEN /\ req' = [req EXCEPT ![t] = Idle]
                            /\ resp' = Response("get_game_state", req[t].game_id, 500,
                                                FALSE, "Internal Server Error", "None")
                       ELSE /\ req' = [req EXCEPT
                                  ![t].switchyard = SubSeq(@, 1, n - 1)]
                            /\ resp' = resp
    /\ UNCHANGED <<position, status>>

\* can_claim_threefold_repetition: `for move in self.generate_legal_moves():
\* self.push(move)`; the moves are those of the position the loop started at
GetProbePush(t) ==
    /\ req[t].pc = "probe"
    /\ IF req[t].todo = {}
       THEN /\ req' = [req EXCEPT ![t].pc = "respond"]
            /\ games' = games
            /\ resp' = resp
       ELSE LET m == CHOOSE x \in req[t].todo : TRUE
                r == push(games[req[t].game_id].board, m)
            IN  /\ games' = [games EXCEPT ![req[t].game_id].board = r.board]
                /\ IF r.raised
                   THEN /\ req' = [req EXCEPT ![t] = Idle]
                        /\ resp' = Response("get_game_state", req[t].game_id, 500,
                                            FALSE, "Internal Server Error", "None")
                   ELSE /\ req' = [req EXCEPT ![t].pc = "probed", ![t].move = m,
                                              ![t].todo = @ \ {m}]
                        /\ resp' = resp
    /\ UNCHANGED <<position, status>>

\* can_claim_threefold_repetition: the count of the position after the move,
\* and `finally: self.pop()`
GetProbePop(t) ==
    /\ req[t].pc = "probed"
    /\ LET b == games[req[t].game_id].board
           hit == Occurrences(req[t].seen, transposition_key(b)) >= 2
           r == pop(b)
       IN  IF r.raised
           THEN /\ games' = games
                /\ req' = [req EXCEPT ![t] = Idle]
                /\ resp' = Response("get_game_state", req[t].game_id, 500, FALSE,
                                    "Internal Server Error", "None")
           ELSE /\ games' = [games EXCEPT ![req[t].game_id].board = r.board]
                /\ req' = [req EXCEPT ![t].pc = IF hit THEN "respond" ELSE "probe"]
                /\ resp' = resp
    /\ UNCHANGED <<position, status>>

\* get_game_state: the response built by _state_to_response(game)
GetRespond(t) ==
    /\ req[t].pc = "respond"
    /\ req[t].op = "get_game_state"
    /\ resp' = Response("get_game_state", req[t].game_id, 200, TRUE, "None",
                        req[t].game_id)
    /\ req' = [req EXCEPT ![t] = Idle]
    /\ UNCHANGED <<games, position, status>>

NextRead ==
    \/ \E game_id \in GameIds, now \in Times : ConcCreateGame(game_id, now)
    \/ \E game_id \in GameIds, uci \in ReadTexts : ReadSubmitMove(game_id, uci)
    \/ \E t \in Readers, game_id \in GameIds : GetLookup(t, game_id)
    \/ \E t \in Readers : GetUnwind(t)
    \/ \E t \in Readers : GetRewind(t)
    \/ \E t \in Readers : GetProbePush(t)
    \/ \E t \in Readers : GetProbePop(t)
    \/ \E t \in Readers : GetRespond(t)

SpecRead == Init /\ [][NextRead]_vars

(***************************************************************************)
(* Games played to their end: the client plays the fool's mate or the      *)
(* shortest stalemate, and may at any point send a text that is no move    *)
(***************************************************************************)
\* 1. e3 a5 2. Qh5 Ra6 3. Qxa5 h5 4. h4 Rah6 5. Qxc7 f6 6. Qxd7+ Kf7 7. Qxb7 Qd3
\* 8. Qxb8 Qh7 9. Qxc8 Kg6 10. Qe6, and black has no move
StalemateLine ==
    <<T4("e", "2", "e", "3"), T4("a", "7", "a", "5"), T4("d", "1", "h", "5"),
      T4("a", "8", "a", "6"), T4("h", "5", "a", "5"), T4("h", "7", "h", "5"),
      T4("h", "2", "h", "4"), T4("a", "6", "h", "6"), T4("a", "5", "c", "7"),
      T4("f", "7", "f", "6"), T4("c", "7", "d", "7"), T4("e", "8", "f", "7"),
      T4("d", "7", "b", "7"), T4("d", "8", "d", "3"), T4("b", "7", "b", "8"),
      T4("d", "3", "h", "7"), T4("b", "8", "c", "8"), T4("f", "7", "g", "6"),
      T4("c", "8", "e", "6")>>

\* texts that are a move in no position of these games
JunkTexts == {T4("e", "2", "e", "5"), T4("0", "0", "0", "0"), T2("e", "2")}

\* the texts the client sends to a game with n moves in its history
LineTexts(n) ==
    {line[n + 1] : line \in {l \in {FoolsMateLine, StalemateLine} : n < Len(l)}}
    \cup JunkTexts

\* all the texts the client sends
MateTexts ==
    {FoolsMateLine[i] : i \in 1 .. Len(FoolsMateLine)}
    \cup {StalemateLine[i] : i \in 1 .. Len(StalemateLine)}
    \cup JunkTexts

\* submit_move with the next text of a line, or a text that is no move
MateSubmitMove(game_id, uci) ==
    /\ uci \in LineTexts(IF game_id \in Live
                          THEN Len(games[game_id].move_history_uci) ELSE 0)
    /\ SubmitMoveWithin(game_id, uci, MaxMatePlies)

NextMate ==
    \/ \E game_id \in GameIds, now \in Times : ConcCreateGame(game_id, now)
    \/ \E game_id \in GameIds : GetGameState(game_id)
    \/ \E game_id \in GameIds, uci \in MateTexts : MateSubmitMove(game_id, uci)
    \/ \E game_id \in GameIds : RestartGame(game_id)
    \/ \E game_id \in GameIds : DeleteGame(game_id)

SpecMate == Init /\ [][NextMate]_vars

(***************************************************************************)
(* Properties                                                              *)
(***************************************************************************)
\* a request with this response changed no game: an unknown id, or a move
\* text that try_apply_move refused
FailedMove(r) ==
    r.op = "submit_move" /\ ~(r.status_code = 200 /\ r.ok)

\* C1: a submit-move that fails (unknown id, unparsable text, illegal move)
\* leaves every game of the store, its position and its history, as it was,
\* and the store holds the same games.
C1_FailedMoveLeavesGame ==
    [][FailedMove(resp') => games' = games]_vars

\* a move was refused as illegal on a game that has moves in its history
C1_Witness ==
    /\ resp.op = "submit_move"
    /\ resp.error = "Illegal move for current position."
    /\ resp.game_id \in Live
    /\ games[resp.game_id].move_history_uci # <<>>

\* C2: a move that a request has validated and is about to push is legal in
\* the position it is pushed onto (no other request changed the position
\* between the test and the push).
C2_PushedMoveWasValidated ==
    \A t \in Threads :
        req[t].pc = "push" =>
            is_legal(games[req[t].game_id].board, req[t].move)

\* the canonical texts of the moves applied to a board, in play order
AppliedMoves(b) == [i \in 1 .. Len(b.move_stack) |-> move_uci(b.move_stack[i])]

\* C3: the history of a game is the sequence of the canonical texts of the
\* moves applied to its position, in play order.
C3_HistoryIsAppliedMoves ==
    \A id \in Live : games[id].move_history_uci = AppliedMoves(games[id].board)

\* C4: in every position a text is accepted by submit-move exactly when it is
\* in the legal-move list of the view of that position.
C4_AcceptedIffListed ==
    \A id \in Live : \A uci \in MoveTexts :
        try_apply_move(games[id], uci).ok <=> uci \in legal_moves_uci(games[id].board)

\* C5: a restart of a live game leaves it with the position and the empty
\* history of a newly created game and with its own id and creation time, and
\* the store with the same ids.
C5_RestartIsFreshGame ==
    [][(resp'.op = "restart_game" /\ resp'.status_code = 200) =>
          /\ resp'.game_id \in Live
          /\ Live' = Live
          /\ games'[resp'.game_id] =
                GameState(resp'.game_id, games[resp'.game_id].created_at_ms)
          /\ games'[resp'.game_id].game_id = games[resp'.game_id].game_id]_vars

\* a game was restarted while the other game of the store has moves played
C5_Witness ==
    /\ resp.op = "restart_game"
    /\ resp.status_code = 200
    /\ games[resp.game_id].move_history_uci = <<>>
    /\ \E id \in Live : games[id].move_history_uci # <<>>

\* C6: a create returns an id that was not live, adds one game to the store
\* and leaves every game that was live as it was.
C6_CreateIsFresh ==
    [][resp'.op = "create_game" =>
          /\ resp'.game_id \notin Live
          /\ Cardinality(Live') = Cardinality(Live) + 1
          /\ \A id \in Live : id \in Live' /\ games'[id] = games[id]]_vars

\* C7: delete returns true exactly when the id was live and leaves it not
\* live and the other games as they were; on an id that is not live get-state,
\* submit-move and restart report not-found and delete returns false; and an id
\* that is not live becomes live only by a create that returns it.
C7_DeletedIdIsInvalid ==
    [][/\ resp'.op = "delete_game" =>
            /\ resp'.ok = (resp'.game_id \in Live)
            /\ Live' = Live \ {resp'.game_id}
            /\ \A id \in Live' : games'[id] = games[id]
       /\ (resp'.op \in {"get_game_state", "submit_move", "restart_game"}
             /\ resp'.game_id \notin Live) =>
            resp'.status_code = 404 /\ resp'.game_id \notin Live'
       /\ \A id \in Live' \ Live :
            resp'.op = "create_game" /\ resp'.game_id = id]_vars

\* a delete removed a live game
C7_Witness ==
    /\ resp.op = "delete_game"
    /\ resp.ok
    /\ resp.game_id \notin Live
    /\ Live # {}

\* C8: get-state, submit-move and restart answer 404 exactly when the id is
\* not in the store, and then no game changes and none is added; the refusal
\* of a move text (ok = false) is a 200 answer on a live id.
C8_NotFoundIsDistinct ==
    [][resp'.op \in {"get_game_state", "submit_move", "restart_game"} =>
          /\ resp'.status_code = 404 <=> resp'.game_id \notin Live
          /\ resp'.status_code = 404 => games' = games
          /\ resp'.status_code \in {200, 404}
          /\ resp'.error \in {"Invalid UCI move format.",
                              "Illegal move for current position."} =>
                /\ resp'.status_code = 200
                /\ ~resp'.ok]_vars

\* a move was sent to an id that is not in a store that holds another game
C8_Witness ==
    /\ resp.op = "submit_move"
    /\ resp.status_code = 404
    /\ resp.game_id \notin Live
    /\ \E id \in Live : games[id].move_history_uci # <<>>

\* C9: a submit-move or a restart on one game leaves every other live game
\* (position, history, id, creation time) as it was.
C9_OtherGamesUnchanged ==
    [][resp'.op \in {"submit_move", "restart_game"} =>
          \A id \in Live \ {resp'.game_id} :
              id \in Live' /\ games'[id] = games[id]]_vars

\* a move was applied to one of two games whose histories differ
C9_Witness ==
    /\ resp.op = "submit_move"
    /\ resp.status_code = 200
    /\ resp.ok
    /\ \E id \in Live \ {resp.game_id} :
          /\ games[id].move_history_uci # <<>>
          /\ games[id].move_history_uci # games[resp.game_id].move_history_uci

\* the conditions of the status, in the order of their priority
StatusConditions(b) ==
    <<<<"checkmate", is_checkmate(b)>>,
      <<"stalemate", is_stalemate(b)>>,
      <<"draw_insufficient_material", is_insufficient_material(b)>>,
      <<"draw_fifty_move_rule_claimable", can_claim_fifty_moves(b)>>,
      <<"draw_threefold_repetition_claimable", can_claim_threefold_repetition(b)>>,
      <<"check", is_check(b)>>,
      <<"active", TRUE>>>>

\* C10: the status is that of the first condition that holds, in the order
\* checkmate, stalemate, insufficient material, fifty-move claimable,
\* threefold-repetition claimable, check, active.
C10_StatusPriority ==
    status # NotComputed =>
        \E i \in 1 .. Len(StatusConditions(position)) :
            /\ StatusConditions(position)[i][1] = status[1]
            /\ StatusConditions(position)[i][2]
            /\ \A j \in 1 .. i - 1 : ~StatusConditions(position)[j][2]

\* a position in check with the fifty-move draw claimable is reported as such
C10_Witness ==
    /\ status[1] = "draw_fifty_move_rule_claimable"
    /\ is_check(position)

\* C12: in every game white is to move exactly when the history has an even
\* number of entries (none after a create or a restart); a move that is
\* applied passes the turn to the other side and a submit-move that fails
\* leaves the side to move as it was.
C12_TurnAlternates ==
    [][/\ \A id \in Live' :
            (games'[id].board.turn = WHITE) <=>
                (Len(games'[id].move_history_uci) % 2 = 0)
       /\ FailedMove(resp') =>
            \A id \in Live : id \in Live' /\ games'[id].board.turn = games[id].board.turn
       /\ (resp'.op = "submit_move" /\ resp'.status_code = 200 /\ resp'.ok) =>
            /\ games'[resp'.game_id].board.turn = ~games[resp'.game_id].board.turn
            /\ Len(games'[resp'.game_id].move_history_uci) =
                  Len(games[resp'.game_id].move_history_uci) + 1
       /\ resp'.op \in {"create_game", "restart_game"} /\ resp'.game_id \in Live' =>
            /\ games'[resp'.game_id].board.turn = WHITE
            /\ games'[resp'.game_id].move_history_uci = <<>>]_vars

\* a third move was applied and it is black's turn
C12_Witness ==
    /\ resp.op = "submit_move"
    /\ resp.ok
    /\ games[resp.game_id].board.turn = BLACK
    /\ Len(games[resp.game_id].move_history_uci) = 3

\* C11: while the status of a game is one of the two claimable draws, every
\* move of its legal-move list is accepted by submit-move, which pushes it on
\* the position, passes the turn and adds its text to the history.
C11_ClaimableDrawStillPlays ==
    \A id \in Live :
        compute_game_status(games[id].board)[1] \in
            {"draw_fifty_move_rule_claimable", "draw_threefold_repetition_claimable"} =>
          /\ generate_legal_moves(games[id].board) # {}
          /\ \A m \in generate_legal_moves(games[id].board) :
                LET r == try_apply_move(games[id], move_uci(m))
                IN  /\ r.ok
                    /\ r.game.board = push(games[id].board, m).board
                    /\ r.game.board.turn = ~games[id].board.turn
                    /\ r.game.board.move_stack = Append(games[id].board.move_stack, m)
                    /\ r.game.move_history_uci =
                          Append(games[id].move_history_uci, move_uci(m))

\* a move was applied to a position whose half-move clock stood at 100
C11_Witness ==
    /\ resp.op = "submit_move"
    /\ resp.ok
    /\ games[resp.game_id].board.halfmove_clock = 101
    /\ Len(games[resp.game_id].move_history_uci) = 101

\* a step of a get_game_state request
GetStep(t) ==
    /\ req'[t] # req[t]
    /\ "get_game_state" \in {req[t].op, req'[t].op}

\* C13: no step of a get-state request changes a game (its position, its
\* move stack, its history), so that a request running at the same time sees
\* the game as it was and the game is as it was when the request returns.
C13_GetStateIsReadOnly ==
    [][(\E t \in Threads : GetStep(t)) => games' = games]_vars

\* a text that is not four or five characters, names a square that is not on
\* the board, or carries a promotion letter other than q, r, b, n
BadText(uci) ==
    \/ Len(uci) \notin {4, 5}
    \/ square_index(uci[1], uci[2]) = NoSquare
    \/ square_index(uci[3], uci[4]) = NoSquare
    \/ Len(uci) = 5 /\ uci[5] \notin {"q", "r", "b", "n"}

\* C14: in every position of every game such a text is refused with the
\* parse-failure reason, and a text that is refused with the parse-failure
\* reason in one position is refused with it in every position.
C14_BadTextIsParseFailure ==
    \A uci \in MoveTexts :
        /\ BadText(uci) =>
              \A id \in Live :
                  /\ ~try_apply_move(games[id], uci).ok
                  /\ try_apply_move(games[id], uci).error = "Invalid UCI move format."
        /\ \A id1, id2 \in Live :
              (try_apply_move(games[id1], uci).error = "Invalid UCI move format.") <=>
              (try_apply_move(games[id2], uci).error = "Invalid UCI move format.")

\* the view of a game whose position is b
ViewOf(b) == state_to_response([GameState("g1", 1000) EXCEPT !.board = b])

\* C15: the view has a winner exactly when its status is checkmate, and the
\* winner is then the colour that is not the view's side to move.
C15_WinnerOnlyAtCheckmate ==
    status # NotComputed =>
        /\ ViewOf(position).status = status[1]
        /\ ViewOf(position).winner = status[2]
        /\ (ViewOf(position).winner # "None") <=> (ViewOf(position).status = "checkmate")
        /\ ViewOf(position).winner \in {"white", "black", "None"}
        /\ ViewOf(position).winner # ViewOf(position).turn

\* a checkmate of black, won by white
C15_Witness ==
    /\ status = <<"checkmate", "white">>
    /\ position.turn = BLACK
    /\ is_check(position)

\* C16: the status is draw_fifty_move_rule_claimable only when the half-move
\* clock is at least 100, and it is that status whenever the clock is at least
\* 100 and the position is neither checkmate, stalemate nor a draw by
\* insufficient material.
C16_FiftyMovesAtHundred ==
    status # NotComputed =>
        /\ status[1] = "draw_fifty_move_rule_claimable" =>
              position.halfmove_clock >= 100
        /\ (/\ position.halfmove_clock >= 100
            /\ ~is_checkmate(position)
            /\ ~is_stalemate(position)
            /\ ~is_insufficient_material(position)) =>
              status[1] = "draw_fifty_move_rule_claimable"

\* C17: whenever no request is under way, the position of every live game is
\* the one reached by playing its history from the starting position, and the
\* number of moves pushed on its board is the length of its history.
C17_PositionIsReplayOfHistory ==
    (\A t \in Threads : req[t].pc = "idle") =>
        \A id \in Live :
            /\ Len(games[id].board.move_stack) = Len(games[id].move_history_uci)
            /\ games[id].board = Play(NewBoard, games[id].move_history_uci)

\* the game is over: it has no legal move, and its status is checkmate or
\* stalemate
GameOver(game) ==
    /\ generate_legal_moves(game.board) = {}
    /\ compute_game_status(game.board)[1] \in {"checkmate", "stalemate"}

\* C18: a view whose status is checkmate or stalemate has an empty legal-move
\* list; a submit-move on a game that is over is refused with the illegal-move
\* or the parse-failure reason; and the game (position, history, hence status
\* and winner) stays as it is until it is restarted or deleted.
C18_GameOverIsAbsorbing ==
    [][/\ (resp'.op = "get_game_state" /\ resp'.status_code = 200) =>
            (state_to_response(games'[resp'.game_id]).status
                  \in {"checkmate", "stalemate"} =>
               /\ state_to_response(games'[resp'.game_id]).legal_moves_uci = {}
               /\ GameOver(games'[resp'.game_id]))
       /\ \A id \in Live :
            GameOver(games[id]) =>
              /\ (resp'.op = "submit_move" /\ resp'.game_id = id) =>
                    /\ resp'.status_code = 200
                    /\ ~resp'.ok
                    /\ resp'.error \in {"Illegal move for current position.",
                                        "Invalid UCI move format."}
              /\ (id \in Live' /\ ~(resp'.op = "restart_game" /\ resp'.game_id = id)) =>
                    /\ games'[id] = games[id]
                    /\ compute_game_status(games'[id].board) =
                          compute_game_status(games[id].board)
              /\ id \notin Live' => (resp'.op = "delete_game" /\ resp'.game_id = id)]_vars

\* a move was refused on a game that has ended in stalemate
C18_Witness ==
    /\ resp.op = "submit_move"
    /\ resp.error = "Illegal move for current position."
    /\ resp.game_id \in Live
    /\ compute_game_status(games[resp.game_id].board)[1] = "stalemate"

====
